---- MODULE Spec2Model ----
(***************************************************************************)
(* BufferedInserter of common/db/buffered_inserter.go: documents are       *)
(* queued in bb.docs and written with one InsertMany when bb.docCount      *)
(* reaches bb.docLimit or when Flush is called.                            *)
(*                                                                         *)
(* Every method is modelled statement by statement: pc[t] is the position  *)
(* of goroutine t inside the method it is executing on its receiver bb[t]. *)
(* A caller that uses its instance serially is one goroutine.              *)
(***************************************************************************)
EXTENDS Integers, Sequences, FiniteSets, TLC

\* Largest docLimit an instance is constructed with.
MaxLimit == 3
\* Number of method calls made on the instances of one run.
MaxCalls == 5

\* Number of method calls made in a run of two goroutines.
MaxConcurrentCalls == 2

\* docLimit is an int the constructors do not validate.
Limits == (-1)..MaxLimit

\* The goroutines a run can start.
Threads == {1, 2}

VARIABLES
    docs,       \* bb.docs: the buffered raw documents, per instance
    docCount,   \* bb.docCount, per instance
    docLimit,   \* bb.docLimit, per instance
    ordered,    \* *bb.bulkWriteOpts.Ordered, per instance
    bypass,     \* bb.bulkWriteOpts.BypassDocumentValidation (a *bool: <<>> is nil)
    bb,         \* the receiver each goroutine calls
    pc,         \* the statement each goroutine is at
    arg,        \* the argument of the running (or last) Insert, addModel or setter call
    out,        \* the value InsertMany returned, held while the deferred resetBulk runs
    ret,        \* what the goroutine's last finished call returned
    call,       \* the running (or last finished) call and the receiver's state when it began
    ncalls,     \* calls made so far
    writes,     \* the InsertMany calls each instance has made, in order
    inserted,   \* the raw documents handed to addModel, per instance, in order
    flushes,    \* the explicit Flush calls made on each instance
    opts,       \* what mongorestore.ParseOptions makes of the command line
    mainPc,     \* the statement main is at ("none": main is not part of the run)
    defers,     \* main's deferred calls not yet run, the last registered last
    ran,        \* main's deferred calls that have run, in order
    result,     \* result.Err # nil, once Restore has returned
    log,        \* what main has logged
    exit        \* the status the process ended with

\* The calls a run makes: MaxCalls by a single goroutine, MaxConcurrentCalls
\* when two goroutines run and their statements interleave.
CallBudget ==
    IF \A t \in Threads : pc[t] # "none" THEN MaxConcurrentCalls ELSE MaxCalls

inserterVars == <<docs, docCount, docLimit, ordered, bypass>>
threadVars == <<bb, pc, arg, out, ret>>
historyVars == <<call, ncalls, writes, inserted, flushes>>
mainVars == <<opts, mainPc, defers, ran, result, log, exit>>
vars == <<inserterVars, threadVars, historyVars, mainVars>>

----------------------------------------------------------------------------
(* Values *)

\* (nil, nil): the *mongo.InsertManyResult is nil and so is the error.
NoOp == [res |-> <<>>, err |-> "nil"]

\* Insert's return when bson.Marshal fails.
EncodingError == [res |-> <<>>, err |-> "bson encoding error"]

\* A document handed to Insert: its _id and whether bson.Marshal can encode it.
Doc(id, enc) == [id |-> id, enc |-> enc]

\* bson.Marshal: the raw bytes of the document, or an error.
Marshal(doc) ==
    IF doc.enc THEN [raw |-> <<"bson", doc.id>>, err |-> FALSE]
               ELSE [raw |-> <<>>, err |-> TRUE]

\* What collection.InsertMany can return for a batch: all documents inserted,
\* a BulkWriteException after k < len documents were inserted, or an error with
\* no result at all.
InsertMany(batch) ==
    {[res |-> <<Len(batch)>>, err |-> "nil"]}
      \cup {[res |-> <<k>>, err |-> "BulkWriteException"] : k \in 0..(Len(batch) - 1)}
      \cup {[res |-> <<>>, err |-> "error"]}

NoCall == [id |-> 0, op |-> "none", doc |-> Doc(0, TRUE), docs |-> <<>>, count |-> 0,
           nwrites |-> 0, ordered |-> TRUE, bypass |-> <<>>]

\* The record of a call that begins now on goroutine t's receiver.
Begin(t, op, doc) ==
    [id |-> ncalls + 1, op |-> op, doc |-> doc,
     docs |-> docs[bb[t]], count |-> docCount[bb[t]],
     nwrites |-> Len(writes[bb[t]]),
     ordered |-> ordered[bb[t]], bypass |-> bypass[bb[t]]]

----------------------------------------------------------------------------
(* Construction *)

\* newBufferedInserter that clamps a negative docLimit instead of panicking.
newBufferedInserter_noPanic(recv, lim, ord) ==
    LET insts == {recv[t] : t \in DOMAIN recv} IN
    /\ bb = [t \in Threads |-> IF t \in DOMAIN recv THEN recv[t] ELSE 0]
    /\ docLimit = lim
    /\ ordered = ord
    /\ docs = [i \in insts |-> <<>>]
    /\ docCount = [i \in insts |-> 0]
    /\ bypass = [i \in insts |-> <<>>]
    /\ pc = [t \in Threads |-> IF t \notin DOMAIN recv THEN "none" ELSE "idle"]
    /\ arg = [t \in Threads |-> <<>>]
    /\ out = [t \in Threads |-> NoOp]
    /\ ret = [t \in Threads |-> NoOp]
    /\ call = [t \in Threads |-> NoCall]
    /\ ncalls = 0
    /\ writes = [i \in insts |-> <<>>]
    /\ inserted = [i \in insts |-> <<>>]
    /\ flushes = [i \in insts |-> 0]

\* newBufferedInserter for every instance of recv (goroutine -> instance; a
\* goroutine outside recv's domain is never started):
\* make([]interface{}, 0, docLimit) panics when docLimit is negative.
newBufferedInserter(recv, lim, ord) ==
    LET insts == {recv[t] : t \in DOMAIN recv} IN
    /\ bb = [t \in Threads |-> IF t \in DOMAIN recv THEN recv[t] ELSE 0]
    /\ docLimit = lim
    /\ ordered = ord
    /\ docs = [i \in insts |-> <<>>]
    /\ docCount = [i \in insts |-> 0]
    /\ bypass = [i \in insts |-> <<>>]
    /\ pc = [t \in Threads |-> IF t \notin DOMAIN recv THEN "none"
                                ELSE IF lim[recv[t]] < 0 THEN "panic" ELSE "idle"]
    /\ arg = [t \in Threads |-> <<>>]
    /\ out = [t \in Threads |-> NoOp]
    /\ ret = [t \in Threads |-> NoOp]
    /\ call = [t \in Threads |-> NoCall]
    /\ ncalls = 0
    /\ writes = [i \in insts |-> <<>>]
    /\ inserted = [i \in insts |-> <<>>]
    /\ flushes = [i \in insts |-> 0]

\* The run does not go through mongorestore's main.
NoMain ==
    /\ opts = <<>>
    /\ mainPc = "none"
    /\ defers = <<>>
    /\ ran = <<>>
    /\ result = FALSE
    /\ log = <<>>
    /\ exit = "running"

\* One instance used by one goroutine.
Init ==
    /\ \E lim \in Limits, ord \in BOOLEAN :
        newBufferedInserter([t \in {1} |-> 1], [i \in {1} |-> lim], [i \in {1} |-> ord])
    /\ NoMain

----------------------------------------------------------------------------
(* Setters *)

SetOrdered(t) ==
    /\ pc[t] = "idle"
    /\ ncalls < CallBudget
    /\ \E b \in BOOLEAN :
        /\ arg' = [arg EXCEPT ![t] = <<b>>]
        /\ ordered' = [ordered EXCEPT ![bb[t]] = b]
        /\ call' = [call EXCEPT ![t] = Begin(t, "SetOrdered", Doc(0, TRUE))]
    /\ ncalls' = ncalls + 1
    /\ UNCHANGED <<docs, docCount, docLimit, bypass, bb, pc, out, ret, writes, inserted, flushes>>
    /\ UNCHANGED mainVars

SetBypassDocumentValidation(t) ==
    /\ pc[t] = "idle"
    /\ ncalls < CallBudget
    /\ \E b \in BOOLEAN :
        /\ arg' = [arg EXCEPT ![t] = <<b>>]
        /\ bypass' = [bypass EXCEPT ![bb[t]] = <<b>>]
        /\ call' = [call EXCEPT ![t] = Begin(t, "SetBypassDocumentValidation", Doc(0, TRUE))]
    /\ ncalls' = ncalls + 1
    /\ UNCHANGED <<docs, docCount, docLimit, ordered, bb, pc, out, ret, writes, inserted, flushes>>
    /\ UNCHANGED mainVars

----------------------------------------------------------------------------
(* resetBulk, run by Flush's defer *)

\* resetBulk that keeps the documents of a write that did not fully succeed.
resetBulk_docs_onSuccess(t) ==
    /\ pc[t] = "resetBulk_docs"
    /\ docs' = [docs EXCEPT ![bb[t]] = IF out[t].err = "nil" THEN <<>> ELSE @]
    /\ pc' = [pc EXCEPT ![t] = "resetBulk_docCount"]
    /\ UNCHANGED <<docCount, docLimit, ordered, bypass, bb, arg, out, ret, historyVars>>
    /\ UNCHANGED mainVars

\* resetBulk that cuts docs to docs[:1].
resetBulk_docs_keepOne(t) ==
    /\ pc[t] = "resetBulk_docs"
    /\ docs' = [docs EXCEPT ![bb[t]] = SubSeq(@, 1, 1)]
    /\ pc' = [pc EXCEPT ![t] = "resetBulk_docCount"]
    /\ UNCHANGED <<docCount, docLimit, ordered, bypass, bb, arg, out, ret, historyVars>>
    /\ UNCHANGED mainVars

\* resetBulk on a buffer that all the instances share.
resetBulk_docs_all(t) ==
    /\ pc[t] = "resetBulk_docs"
    /\ docs' = [i \in DOMAIN docs |-> <<>>]
    /\ pc' = [pc EXCEPT ![t] = "resetBulk_docCount"]
    /\ UNCHANGED <<docCount, docLimit, ordered, bypass, bb, arg, out, ret, historyVars>>
    /\ UNCHANGED mainVars

\* bb.docs = bb.docs[:0]
resetBulk_docs(t) ==
    /\ pc[t] = "resetBulk_docs"
    /\ docs' = [docs EXCEPT ![bb[t]] = <<>>]
    /\ pc' = [pc EXCEPT ![t] = "resetBulk_docCount"]
    /\ UNCHANGED <<docCount, docLimit, ordered, bypass, bb, arg, out, ret, historyVars>>
    /\ UNCHANGED mainVars

\* resetBulk that leaves docCount as it is.
resetBulk_keepCount(t) ==
    /\ pc[t] = "resetBulk_docCount"
    /\ ret' = [ret EXCEPT ![t] = out[t]]
    /\ pc' = [pc EXCEPT ![t] = "idle"]
    /\ UNCHANGED <<inserterVars, bb, arg, out, historyVars>>
    /\ UNCHANGED mainVars

\* A Flush that drops the result when InsertMany also returned an error.
resetBulk_dropResult(t) ==
    /\ pc[t] = "resetBulk_docCount"
    /\ docCount' = [docCount EXCEPT ![bb[t]] = 0]
    /\ ret' = [ret EXCEPT ![t] = IF out[t].err = "nil" THEN out[t]
                                  ELSE [res |-> <<>>, err |-> out[t].err]]
    /\ pc' = [pc EXCEPT ![t] = "idle"]
    /\ UNCHANGED <<docs, docLimit, ordered, bypass, bb, arg, out, historyVars>>
    /\ UNCHANGED mainVars

\* bb.docCount = 0; then Flush (and the addModel that called it) returns what
\* InsertMany returned.
resetBulk_docCount(t) ==
    /\ pc[t] = "resetBulk_docCount"
    /\ docCount' = [docCount EXCEPT ![bb[t]] = 0]
    /\ ret' = [ret EXCEPT ![t] = out[t]]
    /\ pc' = [pc EXCEPT ![t] = "idle"]
    /\ UNCHANGED <<docs, docLimit, ordered, bypass, bb, arg, out, historyVars>>
    /\ UNCHANGED mainVars

----------------------------------------------------------------------------
(* Flush *)

\* A caller calls Flush.
CallFlush(t) ==
    /\ pc[t] = "idle"
    /\ ncalls < CallBudget
    /\ call' = [call EXCEPT ![t] = Begin(t, "Flush", Doc(0, TRUE))]
    /\ ncalls' = ncalls + 1
    /\ flushes' = [flushes EXCEPT ![bb[t]] = @ + 1]
    /\ pc' = [pc EXCEPT ![t] = "Flush"]
    /\ UNCHANGED <<inserterVars, bb, arg, out, ret, writes, inserted>>
    /\ UNCHANGED mainVars

\* Flush without the test for an empty buffer.
Flush_noEmptyTest(t) ==
    /\ pc[t] = "Flush"
    /\ pc' = [pc EXCEPT ![t] = "Flush_InsertMany"]
    /\ UNCHANGED <<inserterVars, bb, arg, out, ret, historyVars>>
    /\ UNCHANGED mainVars

\* if bb.docCount == 0 { return nil, nil }
Flush(t) ==
    /\ pc[t] = "Flush"
    /\ IF docCount[bb[t]] = 0
         THEN /\ ret' = [ret EXCEPT ![t] = NoOp]
              /\ pc' = [pc EXCEPT ![t] = "idle"]
         ELSE /\ pc' = [pc EXCEPT ![t] = "Flush_InsertMany"]
              /\ ret' = ret
    /\ UNCHANGED <<inserterVars, bb, arg, out, historyVars>>
    /\ UNCHANGED mainVars

\* A Flush that writes the batch a second time when the first write failed.
Flush_InsertMany_retry(t) ==
    /\ pc[t] = "Flush_InsertMany"
    /\ \E o1 \in InsertMany(docs[bb[t]]), o2 \in InsertMany(docs[bb[t]]) :
        LET w(o) == [docs |-> docs[bb[t]], ordered |-> ordered[bb[t]],
                     bypass |-> bypass[bb[t]], call |-> call[t].id,
                     auto |-> call[t].op # "Flush", outcome |-> o]
        IN  IF o1.err = "nil"
              THEN /\ out' = [out EXCEPT ![t] = o1]
                   /\ writes' = [writes EXCEPT ![bb[t]] = Append(@, w(o1))]
              ELSE /\ out' = [out EXCEPT ![t] = o2]
                   /\ writes' = [writes EXCEPT ![bb[t]] = Append(Append(@, w(o1)), w(o2))]
    /\ pc' = [pc EXCEPT ![t] = "resetBulk_docs"]
    /\ UNCHANGED <<inserterVars, bb, arg, ret, call, ncalls, inserted, flushes>>
    /\ UNCHANGED mainVars

\* A Flush that calls InsertMany with the default options instead of bb.bulkWriteOpts.
Flush_InsertMany_defaultOpts(t) ==
    /\ pc[t] = "Flush_InsertMany"
    /\ \E o \in InsertMany(docs[bb[t]]) :
        /\ out' = [out EXCEPT ![t] = o]
        /\ writes' = [writes EXCEPT ![bb[t]] =
                        Append(@, [docs |-> docs[bb[t]],
                                   ordered |-> TRUE,
                                   bypass |-> <<>>,
                                   call |-> call[t].id,
                                   auto |-> call[t].op # "Flush",
                                   outcome |-> o])]
    /\ pc' = [pc EXCEPT ![t] = "resetBulk_docs"]
    /\ UNCHANGED <<inserterVars, bb, arg, ret, call, ncalls, inserted, flushes>>
    /\ UNCHANGED mainVars

\* return bb.collection.InsertMany(ctx, bb.docs, bb.bulkWriteOpts), with
\* resetBulk deferred.
Flush_InsertMany(t) ==
    /\ pc[t] = "Flush_InsertMany"
    /\ \E o \in InsertMany(docs[bb[t]]) :
        /\ out' = [out EXCEPT ![t] = o]
        /\ writes' = [writes EXCEPT ![bb[t]] =
                        Append(@, [docs |-> docs[bb[t]],
                                   ordered |-> ordered[bb[t]],
                                   bypass |-> bypass[bb[t]],
                                   call |-> call[t].id,
                                   auto |-> call[t].op # "Flush",
                                   outcome |-> o])]
    /\ pc' = [pc EXCEPT ![t] = "resetBulk_docs"]
    /\ UNCHANGED <<inserterVars, bb, arg, ret, call, ncalls, inserted, flushes>>
    /\ UNCHANGED mainVars

----------------------------------------------------------------------------
(* Insert, InsertRaw, addModel *)

\* A caller calls Insert with a document bson.Marshal may or may not encode.
CallInsert(t) ==
    /\ pc[t] = "idle"
    /\ ncalls < CallBudget
    /\ \E enc \in BOOLEAN :
        /\ arg' = [arg EXCEPT ![t] = Doc(ncalls + 1, enc)]
        /\ call' = [call EXCEPT ![t] = Begin(t, "Insert", Doc(ncalls + 1, enc))]
    /\ ncalls' = ncalls + 1
    /\ pc' = [pc EXCEPT ![t] = "Insert"]
    /\ UNCHANGED <<inserterVars, bb, out, ret, writes, inserted, flushes>>
    /\ UNCHANGED mainVars

\* Insert that buffers what Marshal returned without looking at err.
Insert_ignoreErr(t) ==
    /\ pc[t] = "Insert"
    /\ arg' = [arg EXCEPT ![t] = Marshal(arg[t]).raw]
    /\ inserted' = [inserted EXCEPT ![bb[t]] = Append(@, Marshal(arg[t]).raw)]
    /\ pc' = [pc EXCEPT ![t] = "addModel"]
    /\ UNCHANGED <<inserterVars, bb, out, ret, call, ncalls, writes, flushes>>
    /\ UNCHANGED mainVars

\* Insert that appends the raw bytes itself, without addModel's docCount++.
Insert_appendOnly(t) ==
    /\ pc[t] = "Insert"
    /\ LET m == Marshal(arg[t]) IN
         IF m.err
           THEN /\ ret' = [ret EXCEPT ![t] = EncodingError]
                /\ pc' = [pc EXCEPT ![t] = "idle"]
                /\ UNCHANGED <<arg, inserted>>
           ELSE /\ arg' = [arg EXCEPT ![t] = m.raw]
                /\ inserted' = [inserted EXCEPT ![bb[t]] = Append(@, m.raw)]
                /\ pc' = [pc EXCEPT ![t] = "addModel_append"]
                /\ ret' = ret
    /\ UNCHANGED <<inserterVars, bb, out, call, ncalls, writes, flushes>>
    /\ UNCHANGED mainVars

\* rawBytes, err := bson.Marshal(doc); on err return nil and the encoding
\* error, else return bb.InsertRaw(rawBytes).
Insert(t) ==
    /\ pc[t] = "Insert"
    /\ LET m == Marshal(arg[t]) IN
         IF m.err
           THEN /\ ret' = [ret EXCEPT ![t] = EncodingError]
                /\ pc' = [pc EXCEPT ![t] = "idle"]
                /\ UNCHANGED <<arg, inserted>>
           ELSE /\ arg' = [arg EXCEPT ![t] = m.raw]
                /\ inserted' = [inserted EXCEPT ![bb[t]] = Append(@, m.raw)]
                /\ pc' = [pc EXCEPT ![t] = "addModel"]
                /\ ret' = ret
    /\ UNCHANGED <<inserterVars, bb, out, call, ncalls, writes, flushes>>
    /\ UNCHANGED mainVars

\* InsertRaw behind a mutex of the instance: it waits until no other goroutine
\* is inside a call on the same receiver.
InsertRaw_locked(t) ==
    /\ pc[t] = "idle"
    /\ \A u \in Threads \ {t} : bb[u] = bb[t] => pc[u] = "idle"
    /\ ncalls < CallBudget
    /\ LET raw == <<"bson", ncalls + 1>> IN
        /\ arg' = [arg EXCEPT ![t] = raw]
        /\ inserted' = [inserted EXCEPT ![bb[t]] = Append(@, raw)]
        /\ call' = [call EXCEPT ![t] = Begin(t, "InsertRaw", Doc(ncalls + 1, TRUE))]
    /\ ncalls' = ncalls + 1
    /\ pc' = [pc EXCEPT ![t] = "addModel"]
    /\ UNCHANGED <<inserterVars, bb, out, ret, writes, flushes>>
    /\ UNCHANGED mainVars

\* A caller calls InsertRaw with raw bytes: return bb.addModel(rawBytes).
InsertRaw(t) ==
    /\ pc[t] = "idle"
    /\ ncalls < CallBudget
    /\ LET raw == <<"bson", ncalls + 1>> IN
        /\ arg' = [arg EXCEPT ![t] = raw]
        /\ inserted' = [inserted EXCEPT ![bb[t]] = Append(@, raw)]
        /\ call' = [call EXCEPT ![t] = Begin(t, "InsertRaw", Doc(ncalls + 1, TRUE))]
    /\ ncalls' = ncalls + 1
    /\ pc' = [pc EXCEPT ![t] = "addModel"]
    /\ UNCHANGED <<inserterVars, bb, out, ret, writes, flushes>>
    /\ UNCHANGED mainVars

\* bb.docCount++
addModel(t) ==
    /\ pc[t] = "addModel"
    /\ docCount' = [docCount EXCEPT ![bb[t]] = @ + 1]
    /\ pc' = [pc EXCEPT ![t] = "addModel_append"]
    /\ UNCHANGED <<docs, docLimit, ordered, bypass, bb, arg, out, ret, historyVars>>
    /\ UNCHANGED mainVars

\* addModel that puts the new document first.
addModel_prepend(t) ==
    /\ pc[t] = "addModel_append"
    /\ docs' = [docs EXCEPT ![bb[t]] = <<arg[t]>> \o @]
    /\ pc' = [pc EXCEPT ![t] = "addModel_full"]
    /\ UNCHANGED <<docCount, docLimit, ordered, bypass, bb, arg, out, ret, historyVars>>
    /\ UNCHANGED mainVars

\* bb.docs = append(bb.docs, model)
addModel_append(t) ==
    /\ pc[t] = "addModel_append"
    /\ docs' = [docs EXCEPT ![bb[t]] = Append(@, arg[t])]
    /\ pc' = [pc EXCEPT ![t] = "addModel_full"]
    /\ UNCHANGED <<docCount, docLimit, ordered, bypass, bb, arg, out, ret, historyVars>>
    /\ UNCHANGED mainVars

\* addModel that flushes after every document.
addModel_full_always(t) ==
    /\ pc[t] = "addModel_full"
    /\ pc' = [pc EXCEPT ![t] = "Flush"]
    /\ UNCHANGED <<inserterVars, bb, arg, out, ret, historyVars>>
    /\ UNCHANGED mainVars

\* addModel that flushes only once docCount exceeds docLimit.
addModel_full_gt(t) ==
    /\ pc[t] = "addModel_full"
    /\ IF docCount[bb[t]] > docLimit[bb[t]]
         THEN /\ pc' = [pc EXCEPT ![t] = "Flush"]
              /\ ret' = ret
         ELSE /\ ret' = [ret EXCEPT ![t] = NoOp]
              /\ pc' = [pc EXCEPT ![t] = "idle"]
    /\ UNCHANGED <<inserterVars, bb, arg, out, historyVars>>
    /\ UNCHANGED mainVars

\* if bb.docCount >= bb.docLimit { return bb.Flush() }; return nil, nil
addModel_full(t) ==
    /\ pc[t] = "addModel_full"
    /\ IF docCount[bb[t]] >= docLimit[bb[t]]
         THEN /\ pc' = [pc EXCEPT ![t] = "Flush"]
              /\ ret' = ret
         ELSE /\ ret' = [ret EXCEPT ![t] = NoOp]
              /\ pc' = [pc EXCEPT ![t] = "idle"]
    /\ UNCHANGED <<inserterVars, bb, arg, out, historyVars>>
    /\ UNCHANGED mainVars

----------------------------------------------------------------------------

Next ==
    \E t \in Threads :
        \/ SetOrdered(t)
        \/ SetBypassDocumentValidation(t)
        \/ CallInsert(t)
        \/ Insert(t)
        \/ InsertRaw(t)
        \/ addModel(t)
        \/ addModel_append(t)
        \/ addModel_full(t)
        \/ CallFlush(t)
        \/ Flush(t)
        \/ Flush_InsertMany(t)
        \/ resetBulk_docs(t)
        \/ resetBulk_docCount(t)

Spec == Init /\ [][Next]_vars

\* Two instances, each used by its own goroutine.
InitMulti ==
    /\ \E lim \in [{1, 2} -> 1..2], ord \in [{1, 2} -> BOOLEAN] :
        newBufferedInserter([t \in {1, 2} |-> t], lim, ord)
    /\ NoMain

SpecMulti == InitMulti /\ [][Next]_vars

\* One instance (of NewOrderedBufferedInserter) shared by two goroutines that do
\* not serialize their calls.
InitRace ==
    /\ \E lim \in 1..2 :
        newBufferedInserter([t \in {1, 2} |-> 1], [i \in {1} |-> lim], [i \in {1} |-> TRUE])
    /\ NoMain

SpecRace == InitRace /\ [][Next]_vars

----------------------------------------------------------------------------
(* main of mongorestore *)

inserterFrame == <<inserterVars, threadVars, historyVars>>

\* os.Exit(code): the process ends at once; deferred calls are not run.
osExit(code) ==
    /\ mainPc' = "exited"
    /\ exit' = code
    /\ UNCHANGED <<defers, ran>>

\* return from main: the deferred calls run, last registered first, and the
\* process ends with status 0.
mainReturn ==
    /\ mainPc' = "exited"
    /\ exit' = "0"
    /\ ran' = ran \o [k \in 1..Len(defers) |-> defers[Len(defers) + 1 - k]]
    /\ defers' = <<>>

\* main is entered with some command line; no BufferedInserter exists yet.
InitMain ==
    /\ newBufferedInserter(<<>>, <<>>, <<>>)
    /\ opts \in [parseErr : BOOLEAN, help : BOOLEAN, version : BOOLEAN,
                 CPUProfile : BOOLEAN, MemProfile : BOOLEAN]
    /\ mainPc = "ParseOptions"
    /\ defers = <<>>
    /\ ran = <<>>
    /\ result = FALSE
    /\ log = <<>>
    /\ exit = "running"

\* opts, err := mongorestore.ParseOptions(...); on err log and os.Exit(ExitFailure)
main_ParseOptions ==
    /\ mainPc = "ParseOptions"
    /\ IF opts.parseErr
         THEN /\ log' = log \o <<"error parsing command line options", "usage">>
              /\ osExit("ExitFailure")
         ELSE /\ mainPc' = "PrintHelp"
              /\ UNCHANGED <<log, defers, ran, exit>>
    /\ UNCHANGED <<opts, result, inserterFrame>>

\* if opts.PrintHelp(false) { return }
main_PrintHelp ==
    /\ mainPc = "PrintHelp"
    /\ IF opts.help
         THEN mainReturn
         ELSE /\ mainPc' = "PrintVersion"
              /\ UNCHANGED <<defers, ran, exit>>
    /\ UNCHANGED <<opts, result, log, inserterFrame>>

\* if opts.PrintVersion() { return }
main_PrintVersion ==
    /\ mainPc = "PrintVersion"
    /\ IF opts.version
         THEN mainReturn
         ELSE /\ mainPc' = "CPUProfile"
              /\ UNCHANGED <<defers, ran, exit>>
    /\ UNCHANGED <<opts, result, log, inserterFrame>>

\* if opts.CPUProfile != "" { f, err := os.Create(...); on err log and exit;
\* defer f.Close() }
main_CPUProfile ==
    /\ mainPc = "CPUProfile"
    /\ IF ~opts.CPUProfile
         THEN /\ mainPc' = "New"
              /\ UNCHANGED <<defers, ran, exit, log>>
         ELSE \E err \in BOOLEAN :
                IF err
                  THEN /\ log' = Append(log, "could not create CPU profile")
                       /\ osExit("ExitFailure")
                  ELSE /\ defers' = Append(defers, "cpu f.Close")
                       /\ mainPc' = "StartCPUProfile"
                       /\ UNCHANGED <<ran, exit, log>>
    /\ UNCHANGED <<opts, result, inserterFrame>>

\* if err := pprof.StartCPUProfile(f); err != nil { log and exit };
\* defer pprof.StopCPUProfile()
main_StartCPUProfile ==
    /\ mainPc = "StartCPUProfile"
    /\ \E err \in BOOLEAN :
         IF err
           THEN /\ log' = Append(log, "could not start CPU profile")
                /\ osExit("ExitFailure")
           ELSE /\ defers' = Append(defers, "pprof.StopCPUProfile")
                /\ mainPc' = "New"
                /\ UNCHANGED <<ran, exit, log>>
    /\ UNCHANGED <<opts, result, inserterFrame>>

\* restore, err := mongorestore.New(opts); on err log and exit;
\* defer restore.Close()
main_New ==
    /\ mainPc = "New"
    /\ \E err \in BOOLEAN :
         IF err
           THEN /\ log' = Append(log, "err")
                /\ osExit("ExitFailure")
           ELSE /\ defers' = Append(defers, "restore.Close")
                /\ mainPc' = "HandleWithInterrupt"
                /\ UNCHANGED <<ran, exit, log>>
    /\ UNCHANGED <<opts, result, inserterFrame>>

\* finishedChan := signals.HandleWithInterrupt(...); defer close(finishedChan)
main_HandleWithInterrupt ==
    /\ mainPc = "HandleWithInterrupt"
    /\ defers' = Append(defers, "close(finishedChan)")
    /\ mainPc' = "Restore"
    /\ UNCHANGED <<opts, ran, result, log, exit, inserterFrame>>

\* result := restore.Restore(); if result.Err != nil { log "Failed" }
main_Restore ==
    /\ mainPc = "Restore"
    /\ \E err \in BOOLEAN :
        /\ result' = err
        /\ log' = IF err THEN Append(log, "Failed") ELSE log
    /\ mainPc' = "Acknowledged"
    /\ UNCHANGED <<opts, defers, ran, exit, inserterFrame>>

\* if restore.ToolOptions.WriteConcern.Acknowledged() { log the counts } else
\* { log "done" }
main_Acknowledged ==
    /\ mainPc = "Acknowledged"
    /\ \E ack \in BOOLEAN :
        log' = Append(log, IF ack THEN "document(s) restored successfully" ELSE "done")
    /\ mainPc' = "MemProfile"
    /\ UNCHANGED <<opts, defers, ran, result, exit, inserterFrame>>

\* if opts.MemProfile != "" { f, err := os.Create(...); on err log and exit;
\* defer f.Close() }
main_MemProfile ==
    /\ mainPc = "MemProfile"
    /\ IF ~opts.MemProfile
         THEN /\ mainPc' = "Exit"
              /\ UNCHANGED <<defers, ran, exit, log>>
         ELSE \E err \in BOOLEAN :
                IF err
                  THEN /\ log' = Append(log, "could not create memory profile")
                       /\ osExit("ExitFailure")
                  ELSE /\ defers' = Append(defers, "mem f.Close")
                       /\ mainPc' = "WriteHeapProfile"
                       /\ UNCHANGED <<ran, exit, log>>
    /\ UNCHANGED <<opts, result, inserterFrame>>

\* runtime.GC(); if err := pprof.WriteHeapProfile(f); err != nil { log and exit }
main_WriteHeapProfile ==
    /\ mainPc = "WriteHeapProfile"
    /\ \E err \in BOOLEAN :
         IF err
           THEN /\ log' = Append(log, "could not write memory profile")
                /\ osExit("ExitFailure")
           ELSE /\ mainPc' = "Exit"
                /\ UNCHANGED <<defers, ran, exit, log>>
    /\ UNCHANGED <<opts, result, inserterFrame>>

\* if result.Err != nil { os.Exit(util.ExitFailure) }; os.Exit(util.ExitSuccess)
main_Exit ==
    /\ mainPc = "Exit"
    /\ IF result THEN osExit("ExitFailure") ELSE osExit("ExitSuccess")
    /\ UNCHANGED <<opts, result, log, inserterFrame>>

NextMain ==
    \/ main_ParseOptions
    \/ main_PrintHelp
    \/ main_PrintVersion
    \/ main_CPUProfile
    \/ main_StartCPUProfile
    \/ main_New
    \/ main_HandleWithInterrupt
    \/ main_Restore
    \/ main_Acknowledged
    \/ main_MemProfile
    \/ main_WriteHeapProfile
    \/ main_Exit

SpecMain == InitMain /\ [][NextMain]_vars

----------------------------------------------------------------------------
(* Properties of an instance used by one goroutine *)

\* Goroutine t's last call has returned.
Returned(t) == pc[t] = "idle" /\ call[t].op # "none"

\* Goroutine t's running or last call has made a batched write.
Wrote(t) == Len(writes[bb[t]]) > call[t].nwrites

\* The receiver's buffer and configuration are what they were when t's call began.
SameBuffer(t) ==
    /\ docs[bb[t]] = call[t].docs
    /\ docCount[bb[t]] = call[t].count
SameConfig(t) ==
    /\ ordered[bb[t]] = call[t].ordered
    /\ bypass[bb[t]] = call[t].bypass

\* C1: once a call to Flush has returned (the caller's own, or the one addModel
\* made at the threshold), whatever InsertMany returned, docCount is 0 and docs
\* is empty.
C1_FlushDrains ==
    \A t \in Threads :
        (Returned(t) /\ (call[t].op = "Flush" \/ Wrote(t)))
            => (docCount[bb[t]] = 0 /\ docs[bb[t]] = <<>>)

\* A Flush whose write failed and a Flush whose write failed in part have returned.
C1_Witness ==
    \E t \in Threads :
        /\ Returned(t) /\ call[t].op = "Flush" /\ Wrote(t)
        /\ ret[t].err = "BulkWriteException"
        /\ Len(writes[bb[t]]) >= 2
        /\ writes[bb[t]][1].outcome.err = "error"

\* C2: with a positive docLimit and no explicit Flush, the first docLimit - 1
\* inserts make no batched write, and once the docLimit-th insert has returned
\* exactly one write has been made, during that insert, of all the documents
\* inserted, and docCount is 0.
C2_FlushAtLimit ==
    \A t \in Threads :
        (pc[t] # "none" /\ docLimit[bb[t]] > 0 /\ flushes[bb[t]] = 0) =>
            LET i == bb[t]
                n == Len(inserted[i])
            IN  /\ n < docLimit[i] => writes[i] = <<>>
                /\ n = docLimit[i] => Len(writes[i]) <= 1
                /\ (n = docLimit[i] /\ pc[t] = "idle") =>
                      /\ Len(writes[i]) = 1
                      /\ writes[i][1].auto
                      /\ writes[i][1].call = inserted[i][n][2]
                      /\ writes[i][1].docs = inserted[i]
                      /\ docCount[i] = 0

\* The third insert into an instance of docLimit 3 has returned.
C2_Witness ==
    \E t \in Threads :
        /\ Returned(t) /\ call[t].op \in {"Insert", "InsertRaw"}
        /\ docLimit[bb[t]] = 3 /\ flushes[bb[t]] = 0
        /\ Len(inserted[bb[t]]) = 3 /\ Wrote(t)

\* C3 as stated: for every N < docLimit, N inserts followed by one Flush make
\* exactly one batched write, of the N documents in insertion order.
C3_Original ==
    \A t \in Threads :
        (Returned(t) /\ call[t].op = "Flush" /\ flushes[bb[t]] = 1
            /\ Len(inserted[bb[t]]) < docLimit[bb[t]])
          => /\ Len(writes[bb[t]]) = 1
             /\ writes[bb[t]][1].docs = inserted[bb[t]]

\* C3, amended: for every N with 0 < N < docLimit, N inserts followed by one
\* Flush make exactly one batched write, issued by that Flush, of the N documents
\* in insertion order.
C3_OneWriteInOrder ==
    \A t \in Threads :
        (Returned(t) /\ call[t].op = "Flush" /\ flushes[bb[t]] = 1
            /\ Len(inserted[bb[t]]) > 0
            /\ Len(inserted[bb[t]]) < docLimit[bb[t]])
          => /\ Len(writes[bb[t]]) = 1
             /\ writes[bb[t]][1].docs = inserted[bb[t]]
             /\ writes[bb[t]][1].call = call[t].id
             /\ ~writes[bb[t]][1].auto

\* Two inserts into an instance of docLimit 3, then a Flush that has returned.
C3_Witness ==
    \E t \in Threads :
        /\ Returned(t) /\ call[t].op = "Flush" /\ flushes[bb[t]] = 1
        /\ docLimit[bb[t]] = 3 /\ Len(inserted[bb[t]]) = 2
        /\ Len(writes[bb[t]]) = 1

\* C4: a Flush called with docCount 0 makes no batched write, returns (nil, nil)
\* and leaves docs, docCount and the configuration as they were, however many
\* times it is called.
C4_FlushEmptyNoOp ==
    \A t \in Threads :
        (pc[t] \in {"idle", "Flush", "Flush_InsertMany", "resetBulk_docs", "resetBulk_docCount"}
            /\ call[t].op = "Flush" /\ call[t].count = 0)
          => /\ ~Wrote(t)
             /\ SameBuffer(t) /\ SameConfig(t)
             /\ pc[t] \in {"idle", "Flush"}
             /\ pc[t] = "idle" => ret[t] = NoOp

\* A second Flush in a row of an empty buffer has returned, after an earlier
\* call that returned something else than (nil, nil).
C4_Witness ==
    \E t \in Threads :
        /\ Returned(t) /\ call[t].op = "Flush" /\ call[t].count = 0
        /\ flushes[bb[t]] >= 2
        /\ Len(writes[bb[t]]) = 1
        /\ writes[bb[t]][1].call < call[t].id - 1
        /\ writes[bb[t]][1].outcome.err = "error"

\* C5: an Insert of a document bson.Marshal cannot encode returns the encoding
\* error with a nil result, makes no batched write and leaves docs and docCount
\* as they were, also when docCount was docLimit - 1.
C5_EncodingFailure ==
    \A t \in Threads :
        (Returned(t) /\ call[t].op = "Insert" /\ ~call[t].doc.enc)
          => /\ ret[t] = EncodingError
             /\ ~Wrote(t)
             /\ SameBuffer(t)

\* An Insert that could not encode has returned on a buffer one short of docLimit.
C5_Witness ==
    \E t \in Threads :
        /\ Returned(t) /\ call[t].op = "Insert" /\ ~call[t].doc.enc
        /\ call[t].count = docLimit[bb[t]] - 1
        /\ call[t].count = 2
        /\ docCount[bb[t]] = 2

\* The documents of a sequence.
Elems(seq) == {seq[m] : m \in DOMAIN seq}

\* C6: docCount equals the length of docs after every sequence of Insert,
\* InsertRaw, Flush and setter calls, and inside a call everywhere but between
\* the two assignments that change them together (docCount++ and the append in
\* addModel, docs[:0] and docCount = 0 in resetBulk).
C6_CountIsLength ==
    \A t \in Threads :
        (pc[t] \notin {"none", "addModel_append", "resetBulk_docCount"})
            => docCount[bb[t]] = Len(docs[bb[t]])

\* Two documents are buffered after an earlier batch was written and a setter
\* was called.
C6_Witness ==
    \E t \in Threads :
        /\ Returned(t) /\ call[t].op = "SetOrdered"
        /\ docCount[bb[t]] = 2 /\ Len(docs[bb[t]]) = 2
        /\ Len(writes[bb[t]]) = 1

\* C7: an instance constructed with a positive docLimit has
\* 0 <= docCount <= docLimit in every state, also inside addModel between the
\* append and the Flush it triggers.
C7_CountWithinLimit ==
    \A t \in Threads :
        (pc[t] # "none" /\ docLimit[bb[t]] > 0)
            => (0 <= docCount[bb[t]] /\ docCount[bb[t]] <= docLimit[bb[t]])

\* addModel has appended the docLimit-th document and its Flush has not yet written.
C7_Witness ==
    \E t \in Threads :
        /\ pc[t] = "Flush" /\ call[t].op = "InsertRaw"
        /\ docLimit[bb[t]] = 3 /\ docCount[bb[t]] = 3

\* The call is an Insert whose document encoded or an InsertRaw: it reaches addModel.
Buffers(t) ==
    \/ call[t].op = "InsertRaw"
    \/ call[t].op = "Insert" /\ call[t].doc.enc

\* C8: an InsertRaw (or the InsertRaw an Insert delegates to) whose append
\* leaves docCount below docLimit puts the document last in docs, raises
\* docCount by exactly 1, makes no batched write and returns (nil, nil).
C8_InsertBelowLimit ==
    \A t \in Threads :
        (Returned(t) /\ Buffers(t) /\ call[t].count + 1 < docLimit[bb[t]])
          => /\ docs[bb[t]] = Append(call[t].docs, <<"bson", call[t].id>>)
             /\ docCount[bb[t]] = call[t].count + 1
             /\ ~Wrote(t)
             /\ ret[t] = NoOp

\* An InsertRaw below the limit has returned after an earlier call returned a
\* write error.
C8_Witness ==
    \E t \in Threads :
        /\ Returned(t) /\ call[t].op = "InsertRaw"
        /\ call[t].count = 1 /\ docLimit[bb[t]] = 3
        /\ Len(writes[bb[t]]) = 1
        /\ writes[bb[t]][1].outcome.err = "error"
        /\ docCount[bb[t]] = 2

\* C9: a call during which a batched write was made, by Flush itself or by the
\* Flush addModel calls at the threshold, returns exactly what InsertMany
\* returned, result and error, and docCount is 0 afterwards.
C9_ReturnsWriteOutcome ==
    \A t \in Threads :
        (Returned(t) /\ Wrote(t))
          => /\ ret[t] = writes[bb[t]][Len(writes[bb[t]])].outcome
             /\ docCount[bb[t]] = 0

\* docLimit 2, unordered: the second insert returned 1 document inserted and a
\* BulkWriteException for the other.
C9_Witness ==
    \E t \in Threads :
        /\ Returned(t) /\ Buffers(t) /\ Wrote(t)
        /\ docLimit[bb[t]] = 2 /\ ~writes[bb[t]][1].ordered
        /\ Len(writes[bb[t]][1].docs) = 2
        /\ ret[t] = [res |-> <<1>>, err |-> "BulkWriteException"]
        /\ docCount[bb[t]] = 0

\* C10: no call makes more than one batched write and a flush of a non-empty
\* buffer makes exactly one, whatever the write returns; once the flush of a
\* write that failed in part or in whole has reset the buffer, none of that
\* write's documents is in docs, and none is in any later write.
C10_NoRetry ==
    \A t \in Threads :
        pc[t] # "none" =>
            LET i == bb[t]
                n == Len(writes[i])
            IN  /\ n <= call[t].nwrites + 1
                /\ (Returned(t) /\ call[t].op = "Flush" /\ call[t].count > 0)
                      => n = call[t].nwrites + 1
                /\ (Returned(t) /\ Buffers(t) /\ call[t].count + 1 >= docLimit[i])
                      => n = call[t].nwrites + 1
                /\ \A k \in 1..n :
                      writes[i][k].outcome.err # "nil" =>
                          /\ \A j \in (k + 1)..n :
                                Elems(writes[i][k].docs) \cap Elems(writes[i][j].docs) = {}
                          /\ (k < n \/ pc[t] \notin {"resetBulk_docs"})
                                => Elems(writes[i][k].docs) \cap Elems(docs[i]) = {}

\* A write failed, a second one failed in part, and documents are buffered again.
C10_Witness ==
    \E t \in Threads :
        /\ pc[t] = "idle"
        /\ Len(writes[bb[t]]) = 2
        /\ writes[bb[t]][1].outcome.err = "error"
        /\ writes[bb[t]][2].outcome.err = "BulkWriteException"
        /\ ~writes[bb[t]][1].auto /\ writes[bb[t]][2].auto
        /\ docCount[bb[t]] = 1

\* The batched writes goroutine t's running or last call has made.
WritesOf(t) == {k \in 1..Len(writes[bb[t]]) : k > call[t].nwrites}

\* C11: a batched write is made with the ordered and bypass values in force when
\* it is made. SetOrdered(b) and SetBypassDocumentValidation(b) store b, change
\* nothing else and make no write, so the writes made before them keep their
\* flags; until a setter is called bypass is unset; Insert, InsertRaw and Flush
\* leave the flags as the last setter (or the constructor) left them and every
\* write they make carries exactly those flags, for all the documents in it,
\* also the ones buffered before the setter was called.
C11_FlagsInForce ==
    \A t \in Threads :
        pc[t] \notin {"none", "panic"} =>
            LET i == bb[t] IN
            /\ call[t].op = "SetOrdered" =>
                  /\ ordered[i] = arg[t][1] /\ bypass[i] = call[t].bypass
                  /\ SameBuffer(t) /\ ~Wrote(t)
            /\ call[t].op = "SetBypassDocumentValidation" =>
                  /\ bypass[i] = arg[t] /\ ordered[i] = call[t].ordered
                  /\ SameBuffer(t) /\ ~Wrote(t)
            /\ call[t].op \in {"Insert", "InsertRaw", "Flush"} =>
                  /\ SameConfig(t)
                  /\ \A k \in WritesOf(t) :
                        /\ writes[i][k].ordered = ordered[i]
                        /\ writes[i][k].bypass = bypass[i]
            /\ call[t].op = "none" => (bypass[i] = <<>> /\ writes[i] = <<>>)

\* A document was buffered by the first call, the flags were then set to
\* unordered and bypass, and the Flush that followed wrote the document with them.
C11_Witness ==
    \E t \in Threads :
        /\ Returned(t) /\ call[t].op = "Flush" /\ call[t].id = 4
        /\ Len(writes[bb[t]]) = 1
        /\ writes[bb[t]][1].docs = <<(<<"bson", 1>>)>>
        /\ ~writes[bb[t]][1].ordered
        /\ writes[bb[t]][1].bypass = <<TRUE>>
        /\ call[t].ordered = FALSE /\ call[t].bypass = <<TRUE>>

\* The documents handed to addModel of instance i by calls after call c, in order.
InsertedAfter(i, c) ==
    LET later(d) == d[2] > c IN SelectSeq(inserted[i], later)

\* C12: the document inserted after a threshold-triggered flush starts a fresh
\* batch. Between calls, once a write has been made automatically, docs holds
\* exactly the documents inserted since; the write that follows an automatic one
\* holds exactly the documents inserted between the two and none of the earlier
\* batch. With docLimit 3, inserting A, B, C, D writes [A, B, C] during the insert
\* of C, leaves [D] with docCount 1, and a Flush then writes exactly [D].
C12_FreshBatch ==
    \A t \in Threads :
        pc[t] = "idle" =>
            LET i == bb[t]
                n == Len(writes[i])
            IN  /\ (n > 0 /\ writes[i][n].auto) =>
                      /\ docs[i] = InsertedAfter(i, writes[i][n].call)
                      /\ docCount[i] = Len(docs[i])
                /\ \A k \in 1..(n - 1) :
                      writes[i][k].auto =>
                          /\ Elems(writes[i][k].docs) \cap Elems(writes[i][k + 1].docs) = {}
                          /\ writes[i][k + 1].docs =
                                SubSeq(InsertedAfter(i, writes[i][k].call), 1,
                                       Len(writes[i][k + 1].docs))
                /\ (docLimit[i] = 3 /\ Len(inserted[i]) = 4 /\ flushes[i] = 0) =>
                      /\ n = 1 /\ writes[i][1].auto
                      /\ writes[i][1].docs = SubSeq(inserted[i], 1, 3)
                      /\ writes[i][1].call = inserted[i][3][2]
                      /\ docs[i] = <<inserted[i][4]>>
                      /\ docCount[i] = 1
                /\ (docLimit[i] = 3 /\ Len(inserted[i]) = 4 /\ flushes[i] = 1
                        /\ call[t].op = "Flush" /\ call[t].count = 1) =>
                      /\ n = 2
                      /\ writes[i][1].docs = SubSeq(inserted[i], 1, 3)
                      /\ writes[i][2].docs = <<inserted[i][4]>>
                      /\ ~writes[i][2].auto
                      /\ docs[i] = <<>>

\* docLimit 3: four documents were inserted and the Flush that followed has returned.
C12_Witness ==
    \E t \in Threads :
        /\ Returned(t) /\ call[t].op = "Flush" /\ call[t].count = 1
        /\ docLimit[bb[t]] = 3 /\ Len(inserted[bb[t]]) = 4 /\ flushes[bb[t]] = 1
        /\ Len(writes[bb[t]]) = 2
        /\ writes[bb[t]][1].auto
        /\ writes[bb[t]][2].docs = <<inserted[bb[t]][4]>>

\* C13: there is no terminal state. With a positive docLimit every completed
\* call leaves 0 <= docCount < docLimit, whatever InsertMany returned; a call
\* that has begun can always take its next step; and between calls Insert,
\* InsertRaw and Flush can be called again (as long as the run has calls left),
\* after any number of flushes, failed ones included.
C13_AlwaysAccumulating ==
    \A t \in Threads :
        (pc[t] \notin {"none", "panic"} /\ docLimit[bb[t]] > 0) =>
            /\ pc[t] = "idle" =>
                  (0 <= docCount[bb[t]] /\ docCount[bb[t]] < docLimit[bb[t]])
            /\ (pc[t] = "idle" /\ ncalls < MaxCalls) =>
                  /\ ENABLED CallInsert(t)
                  /\ ENABLED InsertRaw(t)
                  /\ ENABLED CallFlush(t)
            /\ pc[t] # "idle" =>
                  ENABLED (\/ Insert(t) \/ addModel(t) \/ addModel_append(t)
                           \/ addModel_full(t) \/ Flush(t) \/ Flush_InsertMany(t)
                           \/ resetBulk_docs(t) \/ resetBulk_docCount(t))

\* After an automatic write and an explicit one that both failed, the instance
\* accepts a further call.
C13_Witness ==
    \E t \in Threads :
        /\ Returned(t) /\ call[t].op = "Flush" /\ Wrote(t)
        /\ docLimit[bb[t]] = 2 /\ Len(writes[bb[t]]) = 2
        /\ writes[bb[t]][1].auto
        /\ writes[bb[t]][1].outcome.err = "error"
        /\ writes[bb[t]][2].outcome.err = "error"
        /\ docCount[bb[t]] = 0
        /\ ncalls < MaxCalls
        /\ ENABLED InsertRaw(t)

\* What a returned call of goroutine t has done if it was InsertRaw(raw) on the
\* buffer the call found: below the threshold the document is appended and
\* (nil, nil) returned; at the threshold one write of the buffer with the
\* document last is made, its outcome returned and the buffer left empty.
InsertRawEffect(t, raw) ==
    LET i == bb[t]
        n == Len(writes[i])
    IN  IF call[t].count + 1 >= docLimit[i]
          THEN /\ n = call[t].nwrites + 1
               /\ writes[i][n].docs = Append(call[t].docs, raw)
               /\ writes[i][n].ordered = call[t].ordered
               /\ writes[i][n].bypass = call[t].bypass
               /\ ret[t] = writes[i][n].outcome
               /\ docs[i] = <<>> /\ docCount[i] = 0
          ELSE /\ n = call[t].nwrites
               /\ docs[i] = Append(call[t].docs, raw)
               /\ docCount[i] = call[t].count + 1
               /\ ret[t] = NoOp

\* C14: an Insert of a document that encodes has the effect on docs and
\* docCount, makes the write and returns the value of InsertRaw applied to the
\* bytes bson.Marshal gives for the document: a returned InsertRaw(raw) and a
\* returned Insert(doc) with Marshal(doc).raw = raw satisfy the same
\* InsertRawEffect from the same buffer.
C14_InsertIsInsertRaw ==
    \A t \in Threads :
        Returned(t) =>
            /\ call[t].op = "InsertRaw" =>
                  InsertRawEffect(t, <<"bson", call[t].id>>)
            /\ (call[t].op = "Insert" /\ ~Marshal(call[t].doc).err) =>
                  /\ InsertRawEffect(t, Marshal(call[t].doc).raw)
                  /\ SameConfig(t)

\* An Insert below the threshold has returned after an Insert that crossed it.
C14_Witness ==
    \E t \in Threads :
        /\ Returned(t) /\ call[t].op = "Insert" /\ call[t].doc.enc
        /\ call[t].count = 0 /\ docLimit[bb[t]] = 2
        /\ Len(writes[bb[t]]) = 1
        /\ writes[bb[t]][1].auto
        /\ Len(writes[bb[t]][1].docs) = 2
        /\ docs[bb[t]] = <<(<<"bson", call[t].id>>)>>

\* The documents of the first n batched writes of instance i, in the order written.
RECURSIVE Written(_, _)
Written(i, n) ==
    IF n = 0 THEN <<>> ELSE Written(i, n - 1) \o writes[i][n].docs

\* The number of places document d has in the first n batched writes of instance i.
RECURSIVE TimesWritten(_, _, _)
TimesWritten(i, n, d) ==
    IF n = 0 THEN 0
    ELSE TimesWritten(i, n - 1, d)
           + Cardinality({m \in DOMAIN writes[i][n].docs : writes[i][n].docs[m] = d})

\* C15: buffering loses, duplicates and reorders nothing. Between the calls of
\* an instance used by one goroutine, the batched writes made so far, one after
\* the other, followed by docs are the documents handed to addModel so far, in
\* insertion order; every inserted document is in at most one write, and in
\* exactly one once a Flush has returned.
C15_NoLossNoDup ==
    \A t \in Threads :
        pc[t] = "idle" =>
            LET i == bb[t]
                n == Len(writes[i])
            IN  /\ Written(i, n) \o docs[i] = inserted[i]
                /\ \A m \in DOMAIN inserted[i] :
                      /\ TimesWritten(i, n, inserted[i][m]) <= 1
                      /\ call[t].op = "Flush" => TimesWritten(i, n, inserted[i][m]) = 1

\* An explicit Flush, whose write failed in part, and a later automatic write
\* have been made, and a document is buffered again.
C15_Witness ==
    \E t \in Threads :
        /\ Returned(t) /\ ncalls = MaxCalls
        /\ Len(writes[bb[t]]) = 2 /\ Len(docs[bb[t]]) = 1
        /\ Len(inserted[bb[t]]) = 4
        /\ ~writes[bb[t]][1].auto /\ writes[bb[t]][2].auto
        /\ writes[bb[t]][1].outcome.err = "BulkWriteException"

\* C16: with a positive docLimit every batched write holds at least 1 and at
\* most docLimit documents: exactly docLimit when addModel made it at the
\* threshold, between 1 and docLimit - 1 when an explicit Flush made it.
C16_BatchSize ==
    \A t \in Threads :
        (pc[t] # "none" /\ docLimit[bb[t]] > 0) =>
            \A k \in DOMAIN writes[bb[t]] :
                LET w == writes[bb[t]][k] IN
                /\ 1 <= Len(w.docs) /\ Len(w.docs) <= docLimit[bb[t]]
                /\ w.auto => Len(w.docs) = docLimit[bb[t]]
                /\ ~w.auto => Len(w.docs) <= docLimit[bb[t]] - 1

\* docLimit 2: an explicit Flush wrote 1 document and a later insert wrote 2.
C16_Witness ==
    \E t \in Threads :
        /\ pc[t] = "idle"
        /\ docLimit[bb[t]] = 2 /\ Len(writes[bb[t]]) = 2
        /\ ~writes[bb[t]][1].auto /\ Len(writes[bb[t]][1].docs) = 1
        /\ writes[bb[t]][2].auto /\ Len(writes[bb[t]][2].docs) = 2

\* C17 as stated: the constructors accept every int as docLimit, and on an
\* instance with docLimit <= 1 (0 and negative values included) every InsertRaw
\* at once makes a batched write of exactly the document just inserted and
\* returns with docCount 0, so that an explicit Flush never writes.
C17_Original ==
    \A t \in Threads :
        (pc[t] # "none" /\ docLimit[bb[t]] <= 1) =>
            /\ pc[t] # "panic"
            /\ (Returned(t) /\ Buffers(t)) =>
                  /\ Wrote(t)
                  /\ writes[bb[t]][Len(writes[bb[t]])].docs = <<(<<"bson", call[t].id>>)>>
                  /\ docCount[bb[t]] = 0
            /\ pc[t] = "idle" => docCount[bb[t]] = 0
            /\ \A k \in DOMAIN writes[bb[t]] : writes[bb[t]][k].auto

\* C17, amended: the constructors do not validate docLimit; with docLimit 0 or 1
\* every InsertRaw at once makes a batched write of exactly the document just
\* inserted and returns with docCount 0, so docCount is never above 0 between
\* calls and an explicit Flush never writes; with a negative docLimit
\* newBufferedInserter panics in make and no call is ever made.
C17_TinyLimit ==
    \A t \in Threads :
        pc[t] # "none" =>
            /\ docLimit[bb[t]] \in {0, 1} =>
                  /\ pc[t] # "panic"
                  /\ (Returned(t) /\ Buffers(t)) =>
                        /\ Wrote(t)
                        /\ writes[bb[t]][Len(writes[bb[t]])].docs
                              = <<(<<"bson", call[t].id>>)>>
                        /\ docCount[bb[t]] = 0
                  /\ pc[t] = "idle" => docCount[bb[t]] = 0
                  /\ \A k \in DOMAIN writes[bb[t]] : writes[bb[t]][k].auto
                  /\ (Returned(t) /\ call[t].op = "Flush") => (~Wrote(t) /\ ret[t] = NoOp)
            /\ docLimit[bb[t]] < 0 =>
                  (pc[t] = "panic" /\ call[t] = NoCall /\ writes[bb[t]] = <<>>)

\* On an instance of docLimit 0 two inserts each wrote their document, and the
\* Flush that followed has returned.
C17_Witness ==
    \E t \in Threads :
        /\ Returned(t) /\ call[t].op = "Flush"
        /\ docLimit[bb[t]] = 0
        /\ Len(writes[bb[t]]) = 2
        /\ Len(writes[bb[t]][2].docs) = 1

\* The deferred calls main has registered so far.
Registered == Elems(defers) \cup Elems(ran)

\* C20: once main has created the restore object, every deferred call it has
\* registered (restore.Close, close(finishedChan), pprof.StopCPUProfile and the
\* f.Close of the profile files) has run by the time the process has ended,
\* whether Restore returned an error or not.
C20_DefersRun ==
    (mainPc = "exited" /\ "restore.Close" \in Registered)
        => (defers = <<>> /\ Registered \subseteq Elems(ran))

\* What a returned Flush of goroutine t has done on the buffer it found.
FlushEffect(t) ==
    LET i == bb[t]
        n == Len(writes[i])
    IN  IF call[t].count = 0
          THEN /\ n = call[t].nwrites
               /\ SameBuffer(t)
               /\ ret[t] = NoOp
          ELSE /\ n = call[t].nwrites + 1
               /\ writes[i][n].docs = call[t].docs
               /\ writes[i][n].ordered = call[t].ordered
               /\ writes[i][n].bypass = call[t].bypass
               /\ ret[t] = writes[i][n].outcome
               /\ docs[i] = <<>> /\ docCount[i] = 0

\* Every returned call of goroutine t has had on its instance the effect it has
\* on an instance used alone, from the state the instance had when the call began.
AsIfAlone(t) ==
    Returned(t) =>
        /\ Buffers(t) => (InsertRawEffect(t, <<"bson", call[t].id>>) /\ SameConfig(t))
        /\ (call[t].op = "Insert" /\ ~call[t].doc.enc) =>
              (ret[t] = EncodingError /\ ~Wrote(t) /\ SameBuffer(t) /\ SameConfig(t))
        /\ call[t].op = "Flush" => (FlushEffect(t) /\ SameConfig(t))
        /\ call[t].op = "SetOrdered" =>
              /\ ordered[bb[t]] = arg[t][1] /\ bypass[bb[t]] = call[t].bypass
              /\ SameBuffer(t) /\ ~Wrote(t)
        /\ call[t].op = "SetBypassDocumentValidation" =>
              /\ bypass[bb[t]] = arg[t] /\ ordered[bb[t]] = call[t].ordered
              /\ SameBuffer(t) /\ ~Wrote(t)

\* No batched write of goroutine t's instance holds a document inserted into
\* another goroutine's instance.
NoForeignDocs(t) ==
    \A u \in Threads \ {t} :
        \A k \in DOMAIN writes[bb[t]] :
            Elems(writes[bb[t]][k].docs) \cap Elems(inserted[bb[u]]) = {}

\* Goroutine t takes this step.
Stepped(t) == pc'[t] # pc[t] \/ call'[t] # call[t]

\* A step of goroutine t leaves the instances of the other goroutines as they are.
OthersUntouched(t) ==
    \A u \in Threads \ {t} :
        /\ docs'[bb[u]] = docs[bb[u]]
        /\ docCount'[bb[u]] = docCount[bb[u]]
        /\ docLimit'[bb[u]] = docLimit[bb[u]]
        /\ ordered'[bb[u]] = ordered[bb[u]]
        /\ bypass'[bb[u]] = bypass[bb[u]]
        /\ writes'[bb[u]] = writes[bb[u]]
        /\ inserted'[bb[u]] = inserted[bb[u]]

\* C18: instances are independent. When two goroutines each use their own
\* BufferedInserter and their statements interleave in any way, a step of one
\* changes nothing of the other's instance, every call has on its instance the
\* effect it has on an instance used alone, and no batched write of one
\* instance holds a document inserted into the other.
C18_Independent ==
    /\ [](\A t \in Threads : AsIfAlone(t) /\ NoForeignDocs(t))
    /\ [][\A t \in Threads : Stepped(t) => OthersUntouched(t)]_vars

\* Goroutine 1 is resetting its buffer after a write while goroutine 2 is
\* inside addModel with its document appended.
C18_Witness ==
    /\ pc[1] = "resetBulk_docCount" /\ Len(writes[bb[1]]) = 1
    /\ pc[2] = "addModel_full" /\ docLimit[bb[2]] = 2
    /\ bb[1] # bb[2]
    /\ Len(docs[bb[2]]) = 1 /\ docs[bb[1]] = <<>>

\* No goroutine is inside a call.
Quiescent == \A t \in Threads : pc[t] = "idle"

\* C19: the component has no internal locking. Whatever statement one goroutine
\* is at, another goroutine can begin Insert, InsertRaw or Flush on the same
\* instance and take each of its statements, so the increment, the append, the
\* threshold test, the write and the reset of two calls interleave. (The
\* guarantees this breaks are reached in C19_Witness, C19_CountNotLength and
\* C19_CountOverLimit.)
C19_NoLocking ==
    \A t \in Threads : \A u \in Threads \ {t} :
        (bb[u] = bb[t] /\ pc[t] \notin {"none", "panic"}) =>
            /\ (pc[u] = "idle" /\ ncalls < CallBudget) =>
                  /\ ENABLED CallInsert(u)
                  /\ ENABLED InsertRaw(u)
                  /\ ENABLED CallFlush(u)
            /\ pc[u] \notin {"idle", "none", "panic"} =>
                  ENABLED (\/ Insert(u) \/ addModel(u) \/ addModel_append(u)
                           \/ addModel_full(u) \/ Flush(u) \/ Flush_InsertMany(u)
                           \/ resetBulk_docs(u) \/ resetBulk_docCount(u))

\* Two InsertRaw calls on one instance of docLimit 1 have interleaved and both
\* have returned: the first wrote its document, the reset of its Flush emptied
\* docs after the second had appended, and the second document is neither in
\* docs nor in any batched write: it is lost, and its call returned (nil, nil).
C19_Witness ==
    /\ Quiescent /\ bb[1] = bb[2]
    /\ call[1].op = "InsertRaw" /\ call[2].op = "InsertRaw"
    /\ docLimit[bb[1]] = 1
    /\ Len(inserted[bb[1]]) = 2
    /\ Len(writes[bb[1]]) = 1
    /\ docs[bb[1]] = <<>>
    /\ \E m \in 1..2 :
          /\ TimesWritten(bb[1], 1, inserted[bb[1]][m]) = 0
          /\ inserted[bb[1]][m] \notin Elems(docs[bb[1]])
    /\ \E t \in Threads : ret[t] = NoOp /\ Len(writes[bb[1]][1].docs) = 1

\* Two calls on one instance have interleaved and both have returned with
\* docCount different from the length of docs.
C19_CountNotLength ==
    /\ Quiescent /\ bb[1] = bb[2]
    /\ docCount[bb[1]] # Len(docs[bb[1]])

\* Two calls on one instance have interleaved and docCount is above docLimit.
C19_CountOverLimit ==
    /\ bb[1] = bb[2] /\ pc[1] # "none"
    /\ docLimit[bb[1]] > 0
    /\ docCount[bb[1]] > docLimit[bb[1]]

\* Two calls on one instance have interleaved and both have returned after each
\* wrote the same two documents.
C19_Duplicate ==
    /\ Quiescent /\ bb[1] = bb[2]
    /\ Len(writes[bb[1]]) = 2
    /\ \E m \in DOMAIN inserted[bb[1]] : TimesWritten(bb[1], 2, inserted[bb[1]][m]) = 2

====
